---- MODULE Spec2Model ----
(***************************************************************************)
(* State-machine model of src/app.py, the Streamlit "Room Shared Air       *)
(* Analysis Tool": the security gate, the room catalog, the per-room fetch *)
(* and 30-minute resampling, the N x N pair sweep (join, correlations,     *)
(* Granger tests) that fills 24 matrices, and their rendering.             *)
(*                                                                         *)
(* Floating-point values are integers counted in thousandths (the code     *)
(* rounds every stored value to 3 decimals); "null" is Polars' null and    *)
(* "NaN" is the float NaN.  Timestamps are integers counted in 10-minute   *)
(* ticks, so a 30-minute bucket is 3 ticks.                                *)
(***************************************************************************)
EXTENDS Integers, Sequences, FiniteSets, TLC

\* ---------------------------------------------------------------- bounds
\* Number of 30-minute buckets of sensor history of a fully equipped room.
SeriesLen == 10
\* Largest number of rooms the user picks in the multiselect.
MaxSelected == 3
\* Number of alternative p-value tables of the Granger library.
NumOracles == 2

\* ------------------------------------------------------------- constants
\* A value is a number Num(n), Polars' null / SQL NULL / Python None, or the float NaN.
Num(n) == [num |-> n]
Null == [null |-> TRUE]
NaN == [nan |-> TRUE]
\* every="30m" over 10-minute ticks
BucketTicks == 3
\* maxlag=2 of every grangercausalitytests call
MaxLag == 2

RawChannels == <<"co2_ppm", "o2_ppm", "temp_c", "c2h4_ppm">>
DeltaChannels == <<"co2_ppm_delta", "o2_ppm_delta", "temp_c_delta", "c2h4_ppm_delta">>
Columns == RawChannels \o DeltaChannels
ColumnSet == {Columns[k] : k \in 1..Len(Columns)}

\* ------------------------------------------------------------ arithmetic
IsNum(v) == v # Null /\ v # NaN

\* a / b rounded to the nearest integer, ties to even (Python round, Polars round
\* on a value that is exactly representable); b > 0.
RoundDiv(a, b) ==
    LET q == a \div b
        r == a % b
    IN  IF 2 * r < b THEN q
        ELSE IF 2 * r > b THEN q + 1
        ELSE IF q % 2 = 0 THEN q ELSE q + 1

RECURSIVE SumSeq(_)
SumSeq(s) == IF s = <<>> THEN 0 ELSE Head(s) + SumSeq(Tail(s))

RECURSIVE DotSeq(_, _)
DotSeq(s, t) == IF s = <<>> THEN 0 ELSE Head(s) * Head(t) + DotSeq(Tail(s), Tail(t))

Range(s) == {s[k] : k \in 1..Len(s)}


\* ------------------------------------------------------------- databases
\* Rows of ALL_ROOMS_QUERY as fetch_customer_rooms stores them.  Dates are ticks;
\* Null is SQL NULL.  Two customers; the room name "A" exists under both; room E
\* was never scored (no date at all).
all_rooms_table ==
    << [room_id |-> "r1", room_name |-> "A", customer |-> "Acme",
        scoring_start_date |-> Num(2), scoring_end_date |-> Null,
        scoring_start_date_override |-> Null, scoring_end_date_override |-> Null,
        opened_date |-> Null],
       [room_id |-> "r2", room_name |-> "B", customer |-> "Acme",
        scoring_start_date |-> Num(0), scoring_end_date |-> Num(1),
        scoring_start_date_override |-> Num(2), scoring_end_date_override |-> Null,
        opened_date |-> Num(BucketTicks * (SeriesLen + 2))],
       [room_id |-> "r3", room_name |-> "C", customer |-> "Acme",
        scoring_start_date |-> Num(2), scoring_end_date |-> Num(BucketTicks * (SeriesLen + 3)),
        scoring_start_date_override |-> Null, scoring_end_date_override |-> Null,
        opened_date |-> Null],
       [room_id |-> "r4", room_name |-> "S", customer |-> "Acme",
        scoring_start_date |-> Num(2), scoring_end_date |-> Num(BucketTicks * (SeriesLen + 2)),
        scoring_start_date_override |-> Null, scoring_end_date_override |-> Num(6 * BucketTicks),
        opened_date |-> Num(2 * BucketTicks)],
       [room_id |-> "r5", room_name |-> "K", customer |-> "Acme",
        scoring_start_date |-> Num(2), scoring_end_date |-> Num(BucketTicks * (SeriesLen + 2)),
        scoring_start_date_override |-> Null, scoring_end_date_override |-> Null,
        opened_date |-> Null],
       [room_id |-> "r6", room_name |-> "A", customer |-> "Birch",
        scoring_start_date |-> Num(2), scoring_end_date |-> Num(BucketTicks * (SeriesLen + 2)),
        scoring_start_date_override |-> Null, scoring_end_date_override |-> Null,
        opened_date |-> Null],
       [room_id |-> "r7", room_name |-> "E", customer |-> "Birch",
        scoring_start_date |-> Null, scoring_end_date |-> Null,
        scoring_start_date_override |-> Null, scoring_end_date_override |-> Null,
        opened_date |-> Null] >>

Customers == {all_rooms_table[k].customer : k \in 1..Len(all_rooms_table)}

\* datetime.datetime.now(datetime.UTC) truncated to midnight: later than every
\* reading of the tables below.
TodayMidnight == Num(BucketTicks * (SeriesLen + 4))

\* Sensor history.  A reading of channel ch of room rid at tick t is
\* (a*t*t + b*t + c) % m for the room's coefficients <<a, b, c, m>>.  Room r5
\* (K) has a stuck CO2 and a stuck O2 sensor: both channels are constant.
Coeff(rid, ch) ==
    CASE rid = "r1" -> (CASE ch = "co2_ppm" -> <<1, 2, 0, 7>> [] ch = "o2_ppm" -> <<2, 1, 3, 9>>
                          [] ch = "temp_c" -> <<1, 0, 1, 5>> [] OTHER -> <<3, 1, 2, 8>>)
      [] rid = "r2" -> (CASE ch = "co2_ppm" -> <<2, 3, 1, 9>> [] ch = "o2_ppm" -> <<1, 1, 0, 7>>
                          [] ch = "temp_c" -> <<3, 2, 2, 8>> [] OTHER -> <<1, 4, 1, 5>>)
      [] rid = "r3" -> (CASE ch = "co2_ppm" -> <<1, 4, 2, 8>> [] ch = "o2_ppm" -> <<1, 2, 1, 7>>
                          [] ch = "temp_c" -> <<2, 1, 0, 9>> [] OTHER -> <<1, 1, 3, 7>>)
      [] rid = "r4" -> (CASE ch = "co2_ppm" -> <<1, 1, 1, 7>> [] ch = "o2_ppm" -> <<2, 3, 0, 5>>
                          [] ch = "temp_c" -> <<1, 2, 3, 9>> [] OTHER -> <<2, 1, 1, 8>>)
      [] rid = "r5" -> (CASE ch = "co2_ppm" -> <<0, 0, 4, 7>> [] ch = "o2_ppm" -> <<0, 0, 2, 8>>
                          [] ch = "temp_c" -> <<2, 0, 1, 7>> [] OTHER -> <<1, 2, 0, 9>>)
      [] OTHER -> <<1, 1, 1, 5>>

Reading(rid, ch, t) ==
    LET k == Coeff(rid, ch) IN (k[1] * t * t + k[2] * t + k[3]) % k[4]

\* Ticks at which the 10-minute table holds a row of the room: SeriesLen buckets,
\* except that room r3 has one more bucket and lost every reading of bucket 4
\* (sensor outage).
HasReading(rid, t) ==
    /\ t >= BucketTicks
    /\ t < BucketTicks * (SeriesLen + 1 + (IF rid = "r3" THEN 1 ELSE 0))
    /\ ~(rid = "r3" /\ t \div BucketTicks = 4)

\* Ticks at which the 30-minute table holds a row of the room: the bucket starts
\* of the 10-minute readings, except that room r4 has no ethylene reading for
\* the bucket starting at tick 9 (the ethylene sensor skipped it).
HasC2h4(rid, t) ==
    /\ HasReading(rid, t)
    /\ t % BucketTicks = 0
    /\ ~(rid = "r4" /\ t = 3 * BucketTicks)

LastTick == BucketTicks * (SeriesLen + 3)

\* measurements_interpolated_10_minute, ORDER BY dt ASC
RECURSIVE Table10(_, _)
Table10(rid, t) ==
    IF t > LastTick THEN <<>>
    ELSE (IF HasReading(rid, t)
          THEN << [time |-> t, co2_ppm |-> Num(Reading(rid, "co2_ppm", t)),
                   o2_ppm |-> Num(Reading(rid, "o2_ppm", t)),
                   temp_c |-> Num(Reading(rid, "temp_c", t)), device_id |-> "d1"] >>
          ELSE <<>>) \o Table10(rid, t + 1)

\* measurements_interpolated_30_minute, ORDER BY dt ASC: one row per bucket start
RECURSIVE Table30(_, _)
Table30(rid, t) ==
    IF t > LastTick THEN <<>>
    ELSE (IF HasC2h4(rid, t)
          THEN << [time |-> t, c2h4_ppm |-> Num(Reading(rid, "c2h4_ppm", t)), device_id |-> "d1"] >>
          ELSE <<>>) \o Table30(rid, t + 1)

\* WHERE room_id = %s AND dt > %s AND dt < %s; a NULL bound matches no row
InWindow(t, score_start_date, score_end_date) ==
    /\ score_start_date # Null
    /\ score_end_date # Null
    /\ t > score_start_date.num
    /\ t < score_end_date.num

\* lines 127-129: "if score_end_date is None" the end is today's midnight (UTC)
QueryEnd(score_end_date) ==
    IF score_end_date = Null THEN TodayMidnight ELSE score_end_date

\* the two ts_cursor.execute calls of get_room_data with their parameters
QueriesOf(room_id, score_start_date, score_end_date) ==
    << [query |-> "CO2_QUERY", room_id |-> room_id, start |-> score_start_date,
        end |-> QueryEnd(score_end_date)],
       [query |-> "C2H4_QUERY", room_id |-> room_id, start |-> score_start_date,
        end |-> QueryEnd(score_end_date)] >>

\* get_room_data: both queries, then the left join on (time, device_id)
get_room_data(room_id, score_start_date, score_end_date) ==
    LET end == QueryEnd(score_end_date)
        In(r) == InWindow(r.time, score_start_date, end)
        df_co2 == SelectSeq(Table10(room_id, 0), In)
        df_c2h4 == SelectSeq(Table30(room_id, 0), In)
        Matches(r) == LET M(x) == x.time = r.time /\ x.device_id = r.device_id
                      IN  SelectSeq(df_c2h4, M)
        Joined(r, c) == [time |-> r.time, co2_ppm |-> r.co2_ppm, o2_ppm |-> r.o2_ppm,
                         temp_c |-> r.temp_c, device_id |-> r.device_id, c2h4_ppm |-> c]
        RowsOf(r) == IF Matches(r) = <<>> THEN << Joined(r, Null) >>
                     ELSE [k \in 1..Len(Matches(r)) |-> Joined(r, Matches(r)[k].c2h4_ppm)]
        RECURSIVE LeftJoin(_)
        LeftJoin(s) == IF s = <<>> THEN <<>> ELSE RowsOf(Head(s)) \o LeftJoin(Tail(s))
    IN  LeftJoin(df_co2)


\* ------------------------------------------------------------ resampling
\* pl.col(c).mean().round(3) over the rows of one bucket: nulls are skipped, a
\* bucket holding only nulls gives null, a NaN makes the mean NaN.
MeanRound(rows, c) ==
    LET NotNull(r) == r[c] # Null
        IsNaN(r) == r[c] = NaN
        vals == SelectSeq(rows, NotNull)
    IN  IF vals = <<>> THEN Null
        ELSE IF SelectSeq(vals, IsNaN) # <<>> THEN NaN
        ELSE Num(RoundDiv(SumSeq([k \in 1..Len(vals) |-> vals[k][c].num]), Len(vals)))

\* mutant: a window is labelled by its end
BucketOf_end(t) == (t \div BucketTicks) * BucketTicks + BucketTicks

\* start of the 30-minute window a timestamp falls in (windows are aligned to
\* the epoch, closed on the left, labelled by their start)
BucketOf(t) == (t \div BucketTicks) * BucketTicks

\* group_by_dynamic("time", every="30m").agg(...): one row per window that holds
\* at least one input row, in time order
RECURSIVE group_by_dynamic(_)
group_by_dynamic(df) ==
    IF df = <<>> THEN <<>>
    ELSE LET b == BucketOf(Head(df).time)
             Same(r) == BucketOf(r.time) = b
             Other(r) == BucketOf(r.time) # b
             rows == SelectSeq(df, Same)
         IN  << [time |-> b,
                 co2_ppm |-> MeanRound(rows, "co2_ppm"),
                 o2_ppm |-> MeanRound(rows, "o2_ppm"),
                 temp_c |-> MeanRound(rows, "temp_c"),
                 c2h4_ppm |-> MeanRound(rows, "c2h4_ppm")] >>
             \o group_by_dynamic(SelectSeq(df, Other))

\* mutant: a missing value counts as 0 in the difference
DiffVal_null_as_zero(cur, prev) ==
    IF cur = NaN \/ prev = NaN THEN NaN
    ELSE Num((IF cur = Null THEN 0 ELSE cur.num) - (IF prev = Null THEN 0 ELSE prev.num))

\* one element of pl.col(c).diff().round(3): current minus previous row
DiffVal(cur, prev) ==
    IF cur = Null \/ prev = Null THEN Null
    ELSE IF cur = NaN \/ prev = NaN THEN NaN
    ELSE Num(cur.num - prev.num)

\* with_columns(co2_ppm_delta = ..., ...): the first row has no previous row
with_delta_columns(df) ==
    [k \in 1..Len(df) |->
        [time |-> df[k].time,
         co2_ppm |-> df[k].co2_ppm, o2_ppm |-> df[k].o2_ppm,
         temp_c |-> df[k].temp_c, c2h4_ppm |-> df[k].c2h4_ppm,
         co2_ppm_delta |-> IF k = 1 THEN Null ELSE DiffVal(df[k].co2_ppm, df[k-1].co2_ppm),
         o2_ppm_delta |-> IF k = 1 THEN Null ELSE DiffVal(df[k].o2_ppm, df[k-1].o2_ppm),
         temp_c_delta |-> IF k = 1 THEN Null ELSE DiffVal(df[k].temp_c, df[k-1].temp_c),
         c2h4_ppm_delta |-> IF k = 1 THEN Null ELSE DiffVal(df[k].c2h4_ppm, df[k-1].c2h4_ppm)]]

\* The scoring window run() passes to get_room_data for one catalog row.
ScoreStart(room) ==
    IF room.scoring_start_date_override # Null
    THEN room.scoring_start_date_override
    ELSE room.scoring_start_date

\* mutant: the opened date is looked at before the end override
ScoreEnd_opened_first(room) ==
    IF room.opened_date # Null THEN room.opened_date
    ELSE IF room.scoring_end_date_override # Null THEN room.scoring_end_date_override
    ELSE room.scoring_end_date

ScoreEnd(room) ==
    IF room.scoring_end_date_override # Null THEN room.scoring_end_date_override
    ELSE IF room.opened_date # Null THEN room.opened_date
    ELSE room.scoring_end_date

\* the catalog row run() picks for a room name: first match of name and customer
RoomRow(room_name, customer) ==
    LET Match(r) == r.room_name = room_name /\ r.customer = customer
    IN  Head(SelectSeq(all_rooms_table, Match))

\* the queries get_room_data sends for a room of the selection
RoomQueries(room_name, customer) ==
    LET room == RoomRow(room_name, customer)
    IN  QueriesOf(room.room_id, ScoreStart(room), ScoreEnd(room))

\* the RoomSeries run() stores under selected_rooms_data[room_name]
RoomSeries(room_name, customer) ==
    LET room == RoomRow(room_name, customer)
    IN  with_delta_columns(group_by_dynamic(
            get_room_data(room.room_id, ScoreStart(room), ScoreEnd(room))))


\* ------------------------------------------------------------ pair frame
RightColumns == <<"co2_ppm_right", "o2_ppm_right", "temp_c_right", "c2h4_ppm_right",
                  "co2_ppm_delta_right", "o2_ppm_delta_right", "temp_c_delta_right",
                  "c2h4_ppm_delta_right">>
RightColumnSet == Range(RightColumns)

\* the column of the right frame that the join renames to c
Unsuffixed(c) == Columns[CHOOSE k \in 1..Len(RightColumns) : RightColumns[k] = c]

\* .filter(pl.col(c).is_finite() for the 8 columns): a row stays only if every
\* one of its 8 values is a finite number (is_finite of null is null, of NaN false)
finite_filter(df) ==
    LET Finite(r) == \A c \in ColumnSet : IsNum(r[c])
    IN  SelectSeq(df, Finite)

\* mutant: the frames are put side by side row by row, whatever their times
inner_join_positional(a, b) ==
    [k \in 1..(IF Len(a) < Len(b) THEN Len(a) ELSE Len(b)) |->
        [c \in {"time"} \cup ColumnSet \cup RightColumnSet |->
            IF c = "time" THEN a[k].time
            ELSE IF c \in ColumnSet THEN a[k][c]
            ELSE b[k][Unsuffixed(c)]]]

\* a.join(b, on="time", how="inner"): the rows of a, in a's order, that have a row
\* of b with the same time; b's columns get the suffix _right
inner_join(a, b) ==
    LET RowsOf(r) ==
            LET Same(x) == x.time = r.time
                m == SelectSeq(b, Same)
            IN  [k \in 1..Len(m) |->
                    [c \in {"time"} \cup ColumnSet \cup RightColumnSet |->
                        IF c = "time" THEN r.time
                        ELSE IF c \in ColumnSet THEN r[c]
                        ELSE m[k][Unsuffixed(c)]]]
        RECURSIVE Go(_)
        Go(s) == IF s = <<>> THEN <<>> ELSE RowsOf(Head(s)) \o Go(Tail(s))
    IN  Go(a)

\* .fill_nan(None).drop_nulls(): a row with a NaN or a null in any column goes
fill_nan_drop_nulls(df) ==
    LET Whole(r) == \A c \in ColumnSet \cup RightColumnSet : IsNum(r[c])
    IN  SelectSeq(df, Whole)

\* joint_frame of one ordered pair (base frame is already filtered)
joint_frame_of(iteration_base_frame, comparison_series) ==
    fill_nan_drop_nulls(inner_join(iteration_base_frame, finite_filter(comparison_series)))

\* joint_frame[c] as a sequence of numbers
ColVals(df, c) == [k \in 1..Len(df) |-> df[k][c].num]

\* ----------------------------------------------------------- correlation
RECURSIVE IsqrtIn(_, _, _)
IsqrtIn(n, lo, hi) ==
    IF lo >= hi THEN lo
    ELSE LET mid == (lo + hi + 1) \div 2
         IN  IF mid * mid <= n THEN IsqrtIn(n, mid, hi) ELSE IsqrtIn(n, lo, mid - 1)

\* floor of the square root of n, 0 <= n <= 4 000 000
Isqrt(n) == IsqrtIn(n, 0, 2000)

\* <<floor(f1 * f2 * ... * n / d), remainder # 0>> by long division; 0 <= n <= d
RECURSIVE ScaledDiv(_, _, _, _)
ScaledDiv(q, r, d, factors) ==
    IF factors = <<>> THEN <<q, r>>
    ELSE LET f == Head(factors)
         IN  ScaledDiv(q * f + (r * f) \div d, (r * f) % d, d, Tail(factors))

\* 4 * 10^6 as a product of small factors
FourMillion == <<2, 2, 2, 5, 2, 5, 2, 5, 2, 5, 2, 5, 2, 5>>

\* mutant: the covariance is normalised by the variance of x alone
corrcoef_round_slope(x, y) ==
    LET n == Len(x)
        sxx == n * DotSeq(x, x) - SumSeq(x) * SumSeq(x)
        sxy == n * DotSeq(x, y) - SumSeq(x) * SumSeq(y)
    IN  IF n < 2 \/ sxx = 0 THEN NaN ELSE Num(RoundDiv(1000 * sxy, sxx))

\* round(float(np.corrcoef(x, y)[0][1]), 3) in thousandths: NaN when fewer than 2
\* rows or a zero variance, else the Pearson coefficient rounded to 3 decimals
\* (an exact tie goes to the even neighbour).
corrcoef_round(x, y) ==
    LET n == Len(x)
        sxx == n * DotSeq(x, x) - SumSeq(x) * SumSeq(x)
        syy == n * DotSeq(y, y) - SumSeq(y) * SumSeq(y)
        sxy == n * DotSeq(x, y) - SumSeq(x) * SumSeq(y)
        d == sxx * syy
        qr == ScaledDiv((sxy * sxy) \div d, (sxy * sxy) % d, d, FourMillion)
        s == Isqrt(qr[1])
        tie == qr[2] = 0 /\ s * s = qr[1] /\ s % 2 = 1
        k == IF tie THEN (IF ((s - 1) \div 2) % 2 = 0 THEN (s - 1) \div 2 ELSE (s + 1) \div 2)
             ELSE (s + 1) \div 2
    IN  IF n < 2 \/ sxx = 0 \/ syy = 0 THEN NaN
        ELSE Num(IF sxy < 0 THEN -k ELSE k)

\* --------------------------------------------------------------- Granger
\* statsmodels' grangercausalitytests(frame[[c, c_right]], maxlag=2) is a library
\* outside the repository.  What the model keeps of it:
\*   - ValueError when the frame has at most 3*maxlag + 1 rows;
\*   - InfeasibleTestError when, for lag 1 or 2, the dependent column or one of the
\*     lagged regressor columns is constant;
\*     (its third refusal, a regression that fits the data perfectly, needs the
\*     regression itself and is left out; the rooms below do not produce it);
\*   - otherwise, per lag, four sub-tests with a p-value each.  The p-value is an
\*     uninterpreted function of the two columns (in their order), the lag and
\*     the sub-test: one of NumOracles tables, fixed for the whole behaviour.
SubTests == <<"ssr_ftest", "ssr_chi2test", "lrtest", "params_ftest">>
Lags == 1..MaxLag

IsConstant(x, from, to) == \A k \in from..to : x[k] = x[from]

GrangerError(x, y) ==
    LET n == Len(x)
    IN  IF n <= 3 * MaxLag + 1 THEN "ValueError"
        ELSE IF \E lag \in Lags :
                    \/ IsConstant(x, lag + 1, n)
                    \/ \E l \in 1..lag : IsConstant(x, lag + 1 - l, n - l)
                                         \/ IsConstant(y, lag + 1 - l, n - l)
             THEN "InfeasibleTestError"
        ELSE "none"

GrangerP(table, x, y, lag, t) ==
    LET idx == [k \in 1..Len(x) |-> k]
    IN  (table * 13 * DotSeq(x, idx) + 7 * (lag + 1) * DotSeq(y, idx)
         + 101 * lag + 29 * t * SumSeq(x) + 3 * t) % 1001

\* test_results[test][1] for every sub-test of every lag
grangercausalitytests(table, x, y) ==
    [lag \in Lags |-> [t \in 1..Len(SubTests) |-> GrangerP(table, x, y, lag, t)]]


\* ------------------------------------------------- the 24 accumulators
CorrNames == <<"co2_correlations", "c2h4_correlations", "o2_correlations",
               "temp_c_correlations", "delta_co2_correlations",
               "delta_c2h4_correlations", "delta_o2_correlations",
               "delta_temp_c_correlations">>

Indep30Names == <<"co2_p_independence_30m_lag", "o2_p_independence_30m_lag",
                  "temp_c_p_independence_30m_lag", "c2h4_p_independence_30m_lag",
                  "delta_co2_p_independence_30m_lag", "delta_o2_p_independence_30m_lag",
                  "delta_temp_c_p_independence_30m_lag",
                  "delta_c2h4_p_independence_30m_lag">>

Indep1hrNames == <<"co2_p_independence_1hr_lag", "o2_p_independence_1hr_lag",
                   "temp_c_p_independence_1hr_lag", "c2h4_p_independence_1hr_lag",
                   "delta_co2_p_independence_1hr_lag", "delta_o2_p_independence_1hr_lag",
                   "delta_temp_c_p_independence_1hr_lag",
                   "delta_c2h4_p_independence_1hr_lag">>

CorrSet == Range(CorrNames)
IndepSet == Range(Indep30Names) \cup Range(Indep1hrNames)
MatNames == CorrSet \cup IndepSet

\* lines 333-350: the joint_frame column each this_iterations_*_correlations list
\* is computed from (and its _right partner)
CorrColumn(m) ==
    CASE m = "co2_correlations" -> "co2_ppm"
      [] m = "c2h4_correlations" -> "o2_ppm"
      [] m = "o2_correlations" -> "temp_c"
      [] m = "temp_c_correlations" -> "c2h4_ppm"
      [] m = "delta_co2_correlations" -> "co2_ppm_delta"
      [] m = "delta_c2h4_correlations" -> "o2_ppm_delta"
      [] m = "delta_o2_correlations" -> "temp_c_delta"
      [] m = "delta_temp_c_correlations" -> "c2h4_ppm_delta"

\* lines 353-474: the column whose Granger result feeds each independence list
IndepColumn(m) ==
    CASE m \in {"co2_p_independence_30m_lag", "co2_p_independence_1hr_lag"} -> "co2_ppm"
      [] m \in {"o2_p_independence_30m_lag", "o2_p_independence_1hr_lag"} -> "o2_ppm"
      [] m \in {"temp_c_p_independence_30m_lag", "temp_c_p_independence_1hr_lag"} -> "temp_c"
      [] m \in {"c2h4_p_independence_30m_lag", "c2h4_p_independence_1hr_lag"} -> "c2h4_ppm"
      [] m \in {"delta_co2_p_independence_30m_lag", "delta_co2_p_independence_1hr_lag"}
            -> "co2_ppm_delta"
      [] m \in {"delta_o2_p_independence_30m_lag", "delta_o2_p_independence_1hr_lag"}
            -> "o2_ppm_delta"
      [] m \in {"delta_temp_c_p_independence_30m_lag", "delta_temp_c_p_independence_1hr_lag"}
            -> "temp_c_delta"
      [] m \in {"delta_c2h4_p_independence_30m_lag", "delta_c2h4_p_independence_1hr_lag"}
            -> "c2h4_ppm_delta"

\* "if lag == 1: ...30m_lag.append" / "if lag == 2: ...1hr_lag.append"
IndepLag(m) == IF m \in Range(Indep30Names) THEN 1 ELSE 2

RightOf(c) == RightColumns[CHOOSE k \in 1..Len(Columns) : Columns[k] = c]

\* mutant: the self-pair test is missing
p_independence_unforced(comparison_room_name, iteration_room_name, p) == p

\* lines 368-371: one sub-test's contribution
p_independence(comparison_room_name, iteration_room_name, p) ==
    IF comparison_room_name = iteration_room_name THEN 0 ELSE p

\* mutant: only the first lag is recorded
ResultLags_first(result) == {1}

\* "for lag in <result>": the lags for which a value is appended
ResultLags(result) == DOMAIN result

\* mutant: the p-values are added up and not divided
mean_round_sum(ps) == Num(SumSeq(ps))

\* round(float(np.mean(probabilities_of_independence)), 3), in thousandths
mean_round(ps) == Num(RoundDiv(SumSeq(ps), Len(ps)))

\* mutant: the comparison room's column comes first
granger_frame_swapped(joint_frame, c) ==
    <<ColVals(joint_frame, RightOf(c)), ColVals(joint_frame, c)>>

\* the two columns handed to grangercausalitytests for column c, in order
granger_frame(joint_frame, c) == <<ColVals(joint_frame, c), ColVals(joint_frame, RightOf(c))>>

\* mutant: the "if lag ==" tests are missing, every lag's mean goes to the list
IndepAppends_every_lag(table, joint_frame, m, comparison_room_name, iteration_room_name) ==
    LET f == granger_frame(joint_frame, IndepColumn(m))
        result == grangercausalitytests(table, f[1], f[2])
    IN  [lag \in Lags |->
            mean_round([t \in 1..Len(SubTests) |->
                p_independence(comparison_room_name, iteration_room_name,
                               result[lag][t])])]

\* the values one pair appends to an independence list m (one per matching lag)
IndepAppends(table, joint_frame, m, comparison_room_name, iteration_room_name) ==
    LET f == granger_frame(joint_frame, IndepColumn(m))
        result == grangercausalitytests(table, f[1], f[2])
        Val(lag) == mean_round([t \in 1..Len(SubTests) |->
                        p_independence(comparison_room_name, iteration_room_name,
                                       result[lag][t])])
    IN  IF IndepLag(m) \in ResultLags(result) THEN << Val(IndepLag(m)) >> ELSE <<>>

\* mutant: the A-side column is correlated with the B-side column of the
\* neighbouring channel
CorrAppend_wrong_partner(joint_frame, m) ==
    LET k == CHOOSE n \in 1..Len(Columns) : Columns[n] = CorrColumn(m)
    IN  corrcoef_round(ColVals(joint_frame, CorrColumn(m)),
                       ColVals(joint_frame, RightColumns[(k % Len(Columns)) + 1]))

\* the value one pair appends to a correlation list m
CorrAppend(joint_frame, m) ==
    corrcoef_round(ColVals(joint_frame, CorrColumn(m)),
                   ColVals(joint_frame, RightOf(CorrColumn(m))))

\* the first exception of the eight Granger calls of lines 353-362, or "none"
PairError(joint_frame) ==
    LET Err(c) == LET f == granger_frame(joint_frame, c) IN GrangerError(f[1], f[2])
        bad == {k \in 1..Len(Columns) : Err(Columns[k]) # "none"}
    IN  IF bad = {} THEN "none"
        ELSE Err(Columns[CHOOSE k \in bad : \A l \in bad : k <= l])


\* ----------------------------------------------------------------- state
VARIABLES
    authorized,           \* st.session_state["authorized"]
    all_rooms,            \* st.session_state["all_rooms"]; <<>> while not loaded
    selected_customer,    \* value of the customer selectbox
    selected_rooms,       \* value of the multiselect, in selection order
    pc,                   \* where the current script run stands
    selected_rooms_data,  \* dict room_name -> RoomSeries, in insertion order
    ordered_room_names,   \* list(selected_rooms_data.keys())
    i,                    \* index of iteration_room_name in ordered_room_names
    j,                    \* index of comparison_room_name
    iteration_base_frame, \* filtered frame of the iteration room
    this_iterations,      \* the 24 this_iterations_* lists of the current row
    mats,                 \* the 24 matrices (lists of rows)
    charts,               \* the heatmaps drawn by px.imshow / st.plotly_chart
    error,                \* exception that ended the script run, or "none"
    pvalue_table,         \* which p-value table the Granger library follows
    joint_frame,          \* the joint_frame local: the frame line 330 built last
    joins,                \* history: the pairs line 330 built a joint frame for
    ts_queries,           \* history: the queries this run sent to the sensor database
    answer,               \* value of the security question's text input
    connections           \* history: the connections the run under way opened

vars == <<authorized, all_rooms, selected_customer, selected_rooms, pc,
          selected_rooms_data, ordered_room_names, i, j, iteration_base_frame,
          this_iterations, mats, charts, error, pvalue_table, joint_frame, joins,
          ts_queries, answer, connections>>

SECURITY_QUESTION_ANSWER == "many"
Answers == {"", "few", SECURITY_QUESTION_ANSWER}

EmptyLists == [m \in MatNames |-> <<>>]

\* all_rooms["customer"].unique(maintain_order=True)
RECURSIVE unique(_)
unique(s) ==
    IF s = <<>> THEN <<>>
    ELSE LET h == Head(s)
             NotH(x) == x # h
         IN  <<h>> \o unique(SelectSeq(Tail(s), NotH))

CustomerOptions(rooms) == unique([k \in 1..Len(rooms) |-> rooms[k].customer])

\* selected_customers_rooms["room_name"].unique(maintain_order=True)
RoomOptions(rooms, customer) ==
    LET Of(r) == r.customer = customer
        mine == SelectSeq(rooms, Of)
    IN  unique([k \in 1..Len(mine) |-> mine[k].room_name])

\* the values a multiselect over opts can hold: sequences without repetition
Selections(opts) ==
    {s \in UNION {[1..n -> Range(opts)] : n \in 0..MaxSelected} :
        \A a, b \in DOMAIN s : a # b => s[a] # s[b]}

\* selected_rooms_data[room_name] = df
DictSet(d, key, df) ==
    IF \E k \in 1..Len(d) : d[k].room_name = key
    THEN [k \in 1..Len(d) |-> IF d[k].room_name = key THEN [room_name |-> key, df |-> df]
                                                       ELSE d[k]]
    ELSE Append(d, [room_name |-> key, df |-> df])

DictGet(d, key) == d[CHOOSE k \in 1..Len(d) : d[k].room_name = key].df

\* mutant: the keys come out newest first
DictKeys_reversed(d) == [k \in 1..Len(d) |-> d[Len(d) + 1 - k].room_name]

\* list(selected_rooms_data.keys())
DictKeys(d) == [k \in 1..Len(d) |-> d[k].room_name]

\* px.imshow calls of lines 543-816, in order: axis label and matrix drawn
ChartTable ==
    << <<"Co2 Correlations", "co2_correlations">>,
       <<"O2 Correlations", "o2_correlations">>,
       <<"C2H4 Correlations", "c2h4_correlations">>,
       <<"Temp Correlations", "temp_c_correlations">>,
       <<"Delta Co2 Correlations", "delta_co2_correlations">>,
       <<"Delta O2 Correlations", "delta_o2_correlations">>,
       <<"Delta C2H4 Correlations", "delta_c2h4_correlations">>,
       <<"Delta Temp Correlations", "delta_temp_c_correlations">>,
       <<"CO2 30m", "co2_p_independence_30m_lag">>,
       <<"O2 30m", "o2_p_independence_30m_lag">>,
       <<"C2H4 30m", "c2h4_p_independence_30m_lag">>,
       <<"Temp 30m", "temp_c_p_independence_30m_lag">>,
       <<"CO2 60m,", "co2_p_independence_1hr_lag">>,
       <<"O2 60m", "o2_p_independence_1hr_lag">>,
       <<"C2H4 60m", "c2h4_p_independence_1hr_lag">>,
       <<"Temp 60m", "temp_c_p_independence_1hr_lag">>,
       <<"Delta CO2 30m", "delta_co2_p_independence_30m_lag">>,
       <<"Delta O2 30m", "delta_o2_p_independence_30m_lag">>,
       <<"Delta C2H4 30m", "delta_c2h4_p_independence_30m_lag">>,
       <<"Delta Temp 30m", "delta_temp_c_p_independence_30m_lag">>,
       <<"Delta CO2 60m", "delta_co2_p_independence_1hr_lag">>,
       <<"Delta O2 60m", "delta_o2_p_independence_1hr_lag">>,
       <<"Delta C2H4 60m", "delta_c2h4_p_independence_1hr_lag">>,
       <<"Delta Temp 60m", "delta_temp_c_p_independence_1hr_lag">> >>

\* mutant: the joint frame is built again for each of the pair's 24 metrics
joins_after_per_metric(log, iteration_room_name, comparison_room_name) ==
    log \o [k \in 1..Cardinality(MatNames) |->
               [base |-> iteration_room_name, comparison |-> comparison_room_name]]

\* line 330 runs once in an inner iteration: one more joint frame was built
joins_after(log, iteration_room_name, comparison_room_name) ==
    Append(log, [base |-> iteration_room_name, comparison |-> comparison_room_name])

\* mutant: the finished row is put in front of the rows already there
row_append_front(matrix, row) == <<row>> \o matrix

\* lines 476-499: <matrix>.append(this_iterations_<matrix>)
row_append(matrix, row) == Append(matrix, row)

\* pg.connect(db) in fetch_customer_rooms (line 61) and get_room_data (line 123):
\* one more connection is open.  Neither function has a close(), a "with" or a
\* "finally" for it: no statement of the program ever closes it (what becomes
\* of it afterwards is up to the interpreter's finalizers).
pg_connect(log, db) == Append(log, [db |-> db, closed |-> FALSE])

\* A script run has ended and the page waits for the next interaction (an
\* interaction that interrupts a run under way is not modelled).
Waiting == pc \in {"idle", "warned", "rendered", "failed"}

\* every script run starts with fresh locals and an empty page
FreshRun ==
    /\ selected_rooms_data' = <<>>
    /\ ordered_room_names' = <<>>
    /\ i' = 0
    /\ j' = 0
    /\ iteration_base_frame' = <<>>
    /\ this_iterations' = EmptyLists
    /\ mats' = EmptyLists
    /\ charts' = <<>>
    /\ error' = "none"
    /\ joint_frame' = <<>>
    /\ joins' = <<>>
    /\ ts_queries' = <<>>
    /\ connections' = <<>>

Init ==
    /\ authorized = FALSE
    /\ all_rooms = <<>>
    /\ selected_customer = Null
    /\ selected_rooms = <<>>
    /\ pc = "gate"
    /\ selected_rooms_data = <<>>
    /\ ordered_room_names = <<>>
    /\ i = 0
    /\ j = 0
    /\ iteration_base_frame = <<>>
    /\ this_iterations = EmptyLists
    /\ mats = EmptyLists
    /\ charts = <<>>
    /\ error = "none"
    /\ pvalue_table \in 1..NumOracles
    /\ joint_frame = <<>>
    /\ joins = <<>>
    /\ ts_queries = <<>>
    /\ answer = ""
    /\ connections = <<>>

\* ---------------------------------------------------------------- actions
\* mutant: any answer that is not empty opens the gate
SubmitAnswer_any_answer(typed) ==
    /\ pc = "gate"
    /\ ~authorized
    /\ answer' = typed
    /\ IF typed # ""
       THEN authorized' = TRUE /\ pc' = "rerun"
       ELSE authorized' = authorized /\ pc' = "gate"
    /\ UNCHANGED <<all_rooms, selected_customer, selected_rooms, selected_rooms_data,
                   ordered_room_names, i, j, iteration_base_frame, this_iterations,
                   mats, charts, error, pvalue_table,
                   joint_frame, joins, ts_queries, connections>>

\* lines 818-828: a script run while not authorized; the visitor typed `typed`
\* into the text input
SubmitAnswer(typed) ==
    /\ pc = "gate"
    /\ ~authorized
    /\ answer' = typed
    /\ IF answer' = SECURITY_QUESTION_ANSWER
       THEN authorized' = TRUE /\ pc' = "rerun"
       ELSE authorized' = authorized /\ pc' = "gate"
    /\ UNCHANGED <<all_rooms, selected_customer, selected_rooms, selected_rooms_data,
                   ordered_room_names, i, j, iteration_base_frame, this_iterations,
                   mats, charts, error, pvalue_table,
                   joint_frame, joins, ts_queries, connections>>

\* st.rerun(): the script runs again, now authorized, and run() loads the catalog
\* (lines 166-183); the selectbox shows its first option, the multiselect is empty
FirstRun ==
    /\ pc = "rerun"
    /\ authorized
    /\ all_rooms' = IF all_rooms = <<>> THEN all_rooms_table ELSE all_rooms
    /\ connections' = IF all_rooms = <<>> THEN pg_connect(connections, "op_db")
                      ELSE connections
    /\ selected_customer' = Head(CustomerOptions(all_rooms'))
    /\ selected_rooms' = <<>>
    /\ pc' = "idle"
    /\ UNCHANGED <<authorized, answer, selected_rooms_data, ordered_room_names, i, j,
                   iteration_base_frame, this_iterations, mats, charts, error,
                   pvalue_table,
                   joint_frame, joins, ts_queries>>

\* the user picks another customer: a script run without Compare
SelectCustomer(c) ==
    /\ Waiting
    /\ authorized
    /\ c \in Range(CustomerOptions(all_rooms))
    /\ c # selected_customer
    /\ selected_customer' = c
    /\ selected_rooms' = <<>>
    /\ pc' = "idle"
    /\ FreshRun
    /\ UNCHANGED <<authorized, answer, all_rooms, pvalue_table>>

\* the user changes the multiselect: a script run without Compare
SelectRooms(sel) ==
    /\ Waiting
    /\ authorized
    /\ sel \in Selections(RoomOptions(all_rooms, selected_customer))
    /\ sel # selected_rooms
    /\ selected_rooms' = sel
    /\ pc' = "idle"
    /\ FreshRun
    /\ UNCHANGED <<authorized, answer, all_rooms, selected_customer, pvalue_table>>

\* mutant: the test lets a single room through
Compare_one_room_enough ==
    /\ Waiting
    /\ authorized
    /\ FreshRun
    /\ pc' = IF Len(selected_rooms) < 1 THEN "warned" ELSE "fetching"
    /\ UNCHANGED <<authorized, answer, all_rooms, selected_customer, selected_rooms,
                   pvalue_table>>

\* lines 185-189: Compare pressed
Compare ==
    /\ Waiting
    /\ authorized
    /\ FreshRun
    /\ pc' = IF Len(selected_rooms) < 2 THEN "warned" ELSE "fetching"
    /\ UNCHANGED <<authorized, answer, all_rooms, selected_customer, selected_rooms,
                   pvalue_table>>

\* lines 191-235: one iteration of "for room_name in selected_rooms"
FetchRoom ==
    /\ pc = "fetching"
    /\ LET room_name == selected_rooms[Len(selected_rooms_data) + 1]
       IN  /\ selected_rooms_data' =
               DictSet(selected_rooms_data, room_name,
                       RoomSeries(room_name, selected_customer))
           /\ ts_queries' = ts_queries \o RoomQueries(room_name, selected_customer)
           /\ connections' = pg_connect(connections, "ts_db")
    /\ pc' = IF Len(selected_rooms_data) + 1 = Len(selected_rooms)
             THEN "fetched" ELSE "fetching"
    /\ UNCHANGED <<authorized, answer, all_rooms, selected_customer, selected_rooms,
                   ordered_room_names, i, j, iteration_base_frame, this_iterations,
                   mats, charts, error, pvalue_table,
                   joint_frame, joins>>

\* lines 238-268: the room order and the 24 empty matrices
StartSweep ==
    /\ pc = "fetched"
    /\ ordered_room_names' = DictKeys(selected_rooms_data)
    /\ mats' = EmptyLists
    /\ i' = 1
    /\ pc' = "row"
    /\ UNCHANGED <<authorized, answer, all_rooms, selected_customer, selected_rooms,
                   selected_rooms_data, j, iteration_base_frame, this_iterations,
                   charts, error, pvalue_table,
                   joint_frame, joins, ts_queries, connections>>

\* mutant: the filtered frame is stored back under the room's name
BeginRow_filter_in_place ==
    /\ pc = "row"
    /\ iteration_base_frame' =
           finite_filter(DictGet(selected_rooms_data, ordered_room_names[i]))
    /\ selected_rooms_data' =
           DictSet(selected_rooms_data, ordered_room_names[i], iteration_base_frame')
    /\ this_iterations' = EmptyLists
    /\ j' = 1
    /\ pc' = "pair"
    /\ UNCHANGED <<authorized, answer, all_rooms, selected_customer, selected_rooms,
                   ordered_room_names, i, mats, charts, error, pvalue_table,
                   joint_frame, joins, ts_queries, connections>>

\* lines 273-315: start of one outer iteration
BeginRow ==
    /\ pc = "row"
    /\ iteration_base_frame' =
           finite_filter(DictGet(selected_rooms_data, ordered_room_names[i]))
    /\ this_iterations' = EmptyLists
    /\ j' = 1
    /\ pc' = "pair"
    /\ UNCHANGED <<authorized, answer, all_rooms, selected_customer, selected_rooms,
                   selected_rooms_data, ordered_room_names, i, mats, charts, error,
                   pvalue_table,
                   joint_frame, joins, ts_queries, connections>>

\* lines 317-474: one inner iteration.  The 8 correlations are appended first;
\* the 8 Granger calls follow and the first one that raises ends the script run
\* (nothing catches it); otherwise the 16 independence values are appended.
EvaluatePair ==
    /\ pc = "pair"
    /\ LET iteration_room_name == ordered_room_names[i]
           comparison_room_name == ordered_room_names[j]
           frame == joint_frame_of(iteration_base_frame,
                        DictGet(selected_rooms_data, comparison_room_name))
           err == PairError(frame)
       IN  /\ joint_frame' = frame
           /\ joins' = joins_after(joins, iteration_room_name, comparison_room_name)
           /\ error' = err
           /\ this_iterations' =
                 [m \in MatNames |->
                    IF m \in CorrSet
                    THEN Append(this_iterations[m], CorrAppend(frame, m))
                    ELSE IF err # "none" THEN this_iterations[m]
                    ELSE this_iterations[m] \o
                         IndepAppends(pvalue_table, frame, m,
                                      comparison_room_name, iteration_room_name)]
           /\ pc' = IF err # "none" THEN "failed"
                    ELSE IF j = Len(ordered_room_names) THEN "row_end" ELSE "pair"
           /\ j' = IF err # "none" THEN j ELSE j + 1
    /\ UNCHANGED <<authorized, answer, all_rooms, selected_customer, selected_rooms,
                   selected_rooms_data, ordered_room_names, i, iteration_base_frame,
                   mats, charts, pvalue_table,
                   ts_queries, connections>>

\* lines 476-499: the row lists are appended to the matrices
AppendRow ==
    /\ pc = "row_end"
    /\ mats' = [m \in MatNames |-> row_append(mats[m], this_iterations[m])]
    /\ i' = i + 1
    /\ pc' = IF i = Len(ordered_room_names) THEN "sweep_done" ELSE "row"
    /\ UNCHANGED <<authorized, answer, all_rooms, selected_customer, selected_rooms,
                   selected_rooms_data, ordered_room_names, j, iteration_base_frame,
                   this_iterations, charts, error, pvalue_table,
                   joint_frame, joins, ts_queries, connections>>

\* lines 538-816: the 24 heatmaps
Render ==
    /\ pc = "sweep_done"
    /\ charts' = [k \in 1..Len(ChartTable) |->
                    [label |-> ChartTable[k][1],
                     z |-> mats[ChartTable[k][2]],
                     x |-> ordered_room_names,
                     y |-> ordered_room_names]]
    /\ pc' = "rendered"
    /\ UNCHANGED <<authorized, answer, all_rooms, selected_customer, selected_rooms,
                   selected_rooms_data, ordered_room_names, i, j,
                   iteration_base_frame, this_iterations, mats, error, pvalue_table,
                   joint_frame, joins, ts_queries, connections>>

Next ==
    \/ \E typed \in Answers : SubmitAnswer(typed)
    \/ FirstRun
    \/ \E c \in Customers : SelectCustomer(c)
    \/ \E sel \in Selections(RoomOptions(all_rooms, selected_customer)) : SelectRooms(sel)
    \/ Compare
    \/ FetchRoom
    \/ StartSweep
    \/ BeginRow
    \/ EvaluatePair
    \/ AppendRow
    \/ Render

Spec == Init /\ [][Next]_vars


\* ================================================================ claims
N == Len(ordered_room_names)

\* joint frame of the ordered pair (room a as base, room b as comparison), taken
\* from the series the run fetched
JointOf(a, b) ==
    joint_frame_of(finite_filter(DictGet(selected_rooms_data, a)),
                   DictGet(selected_rooms_data, b))

\* a value for pair (row a, column b) is held by accumulator m: in a row already
\* appended to the matrix, or in the row list of the outer iteration under way
InMatrix(m, a, b) == a \in 1..Len(mats[m]) /\ b \in 1..Len(mats[m][a])
InRowList(m, a, b) ==
    /\ pc \in {"pair", "row_end", "failed"}
    /\ a = i
    /\ b \in 1..Len(this_iterations[m])
Stored(m, a, b) == InMatrix(m, a, b) \/ InRowList(m, a, b)
Cell(m, a, b) == IF InMatrix(m, a, b) THEN mats[m][a][b] ELSE this_iterations[m][b]

\* what the Granger library reported for the ordered pair (a, b), column c, lag:
\* the mean of its sub-tests' p-values, before any sentinel
ReportedIndep(a, b, c, lag) ==
    LET jf == JointOf(a, b)
        res == grangercausalitytests(pvalue_table, ColVals(jf, c), ColVals(jf, RightOf(c)))
    IN  mean_round(res[lag])

\* C1: every independence cell of a self-pair, in all 16 independence
\* accumulators (4 channels, raw and delta, 30m and 60m), is exactly 0.0,
\* whatever the Granger library reported for the room's series.
C1_SelfPairSentinel ==
    \A m \in IndepSet : \A a \in 1..N :
        Stored(m, a, a) => Cell(m, a, a) = Num(0)

\* C1 witness: a rendered comparison whose self-pair Granger result was not 0.
C1_Witness ==
    /\ pc = "rendered"
    /\ \E m \in IndepSet : \E a \in 1..N :
          /\ charts[1].x = ordered_room_names
          /\ mats[m][a][a] = Num(0)
          /\ ReportedIndep(ordered_room_names[a], ordered_room_names[a],
                           IndepColumn(m), IndepLag(m)) # Num(0)

\* C2 (as claimed): a pair whose metrics cannot be computed does not end the
\* sweep; the sweep goes on and only that pair's cells hold a sentinel.
C2_PairFailureDoesNotAbort ==
    error # "none" =>
        /\ pc \in {"pair", "row_end"}
        /\ \A m \in IndepSet : Cell(m, i, j - 1) = NaN

\* C3 (as claimed): a pair whose joint frame has fewer than 3 rows is never
\* fatal: its 16 independence cells hold the sentinel NaN and its 8 correlation
\* cells are stored.
C3_SmallFrameIsSoft ==
    \A a \in 1..N : \A b \in 1..N :
        (/\ \E m \in CorrSet : Stored(m, a, b)
         /\ Len(JointOf(ordered_room_names[a], ordered_room_names[b])) < 3)
        => /\ pc # "failed"
           /\ \A m \in IndepSet : Stored(m, a, b) /\ Cell(m, a, b) = NaN
           /\ \A m \in CorrSet : Stored(m, a, b)

\* C4: once the sweep of N >= 2 rooms is over, each of the 24 matrices has N rows
\* of N entries, and so has every heatmap drawn from them.
C4_MatricesSquare ==
    (pc \in {"sweep_done", "rendered"} /\ N >= 2) =>
        /\ \A m \in MatNames :
              /\ Len(mats[m]) = N
              /\ \A a \in 1..N : Len(mats[m][a]) = N
        /\ pc = "rendered" =>
              /\ Len(charts) = Cardinality(MatNames)
              /\ \A k \in 1..Len(charts) :
                    /\ Len(charts[k].z) = N
                    /\ \A a \in 1..N : Len(charts[k].z[a]) = N

\* C4 witness: a rendered comparison of 3 rooms.
C4_Witness == pc = "rendered" /\ N = 3 /\ Len(mats["co2_correlations"]) = 3


\* the channel column a heatmap's axis label names
LabelColumn(label) ==
    CASE label = "Co2 Correlations" -> "co2_ppm"
      [] label = "O2 Correlations" -> "o2_ppm"
      [] label = "C2H4 Correlations" -> "c2h4_ppm"
      [] label = "Temp Correlations" -> "temp_c"
      [] label = "Delta Co2 Correlations" -> "co2_ppm_delta"
      [] label = "Delta O2 Correlations" -> "o2_ppm_delta"
      [] label = "Delta C2H4 Correlations" -> "c2h4_ppm_delta"
      [] label = "Delta Temp Correlations" -> "temp_c_delta"

\* the channel column a correlation matrix is named for
NamedColumn(m) ==
    CASE m = "co2_correlations" -> "co2_ppm"
      [] m = "o2_correlations" -> "o2_ppm"
      [] m = "c2h4_correlations" -> "c2h4_ppm"
      [] m = "temp_c_correlations" -> "temp_c"
      [] m = "delta_co2_correlations" -> "co2_ppm_delta"
      [] m = "delta_o2_correlations" -> "o2_ppm_delta"
      [] m = "delta_c2h4_correlations" -> "c2h4_ppm_delta"
      [] m = "delta_temp_c_correlations" -> "temp_c_delta"

\* Pearson correlation of column c between room a (A side) and room b (B side)
PearsonOf(a, b, c) ==
    LET jf == JointOf(a, b)
    IN  corrcoef_round(ColVals(jf, c), ColVals(jf, RightOf(c)))

\* C5 (as claimed): every cell of each of the 8 correlation matrices, and of the
\* heatmap drawn under a channel's label, is the Pearson correlation of that
\* same channel's A-side and B-side columns.
C5_CorrelationOfNamedChannel ==
    /\ \A m \in CorrSet : \A a \in 1..N : \A b \in 1..N :
          InMatrix(m, a, b) =>
              mats[m][a][b] = PearsonOf(ordered_room_names[a], ordered_room_names[b],
                                        NamedColumn(m))
    /\ pc = "rendered" =>
          \A k \in 1..Len(CorrNames) : \A a \in 1..N : \A b \in 1..N :
              charts[k].z[a][b] = PearsonOf(charts[k].y[a], charts[k].x[b],
                                            LabelColumn(charts[k].label))

\* the value accumulator m must hold for base room a and comparison room b, from
\* the fetched series alone
MetricOf(m, a, b) ==
    IF m \in CorrSet THEN PearsonOf(a, b, CorrColumn(m))
    ELSE IF a = b THEN Num(0)
    ELSE ReportedIndep(a, b, IndepColumn(m), IndepLag(m))

\* C6: the matrices and both heatmap axes are indexed by the rooms in the order
\* they were selected, and cell [a][b] of every accumulator is the metric of
\* (a-th selected room as base, b-th selected room as comparison).
C6_SelectionOrderIndexing ==
    /\ pc \in {"row", "pair", "row_end", "sweep_done", "rendered", "failed"}
          => ordered_room_names = selected_rooms
    /\ \A m \in MatNames : \A a \in 1..Len(selected_rooms) : \A b \in 1..Len(selected_rooms) :
          Stored(m, a, b) => Cell(m, a, b) = MetricOf(m, selected_rooms[a], selected_rooms[b])
    /\ pc = "rendered" =>
          \A k \in 1..Len(charts) :
              /\ charts[k].x = selected_rooms
              /\ charts[k].y = selected_rooms
              /\ \A a \in 1..Len(selected_rooms) : \A b \in 1..Len(selected_rooms) :
                    charts[k].z[a][b] =
                        MetricOf(ChartTable[k][2], selected_rooms[a], selected_rooms[b])

\* C6 witness: a rendered comparison whose selection order is not the catalog
\* order and whose independence cells [1][2] and [2][1] differ.
C6_Witness ==
    /\ pc = "rendered"
    /\ selected_rooms = <<"C", "A", "B">>
    /\ charts[9].x = <<"C", "A", "B">>
    /\ mats["co2_p_independence_30m_lag"][1][2] # mats["co2_p_independence_30m_lag"][2][1]

\* C7: each of the 8 correlation matrices is symmetric: a stored cell [a][b]
\* whose mirror [b][a] is stored too holds the same number.
C7_CorrelationSymmetric ==
    \A m \in CorrSet : \A a \in 1..N : \A b \in 1..N :
        (a # b /\ Stored(m, a, b) /\ Stored(m, b, a)) =>
            /\ IsNum(Cell(m, a, b))
            /\ Cell(m, a, b) = Cell(m, b, a)

\* C7 witness: a rendered matrix with an off-diagonal correlation strictly
\* between -1 and 1 and different from 0.
C7_Witness ==
    /\ pc = "rendered"
    /\ \E m \in CorrSet : \E a \in 1..N : \E b \in 1..N :
          /\ a # b
          /\ mats[m][a][b] = mats[m][b][a]
          /\ mats[m][a][b] \notin {Num(0), Num(1000), Num(-1000), NaN}

\* the raw correlation matrix named for a raw channel
RawCorrName(c) ==
    CASE c = "co2_ppm" -> "co2_correlations"
      [] c = "o2_ppm" -> "o2_correlations"
      [] c = "temp_c" -> "temp_c_correlations"
      [] c = "c2h4_ppm" -> "c2h4_correlations"

\* the filtered series of a room has nonzero variance in column c
HasVariance(room_name, c) ==
    LET x == ColVals(finite_filter(DictGet(selected_rooms_data, room_name)), c)
    IN  \E k \in 1..Len(x) : x[k] # x[1]

C9_DirectionPreserved ==
    \A m \in IndepSet : \A a \in 1..N : \A b \in 1..N :
        (a # b /\ Stored(m, a, b)) =>
            LET ab == ReportedIndep(ordered_room_names[a], ordered_room_names[b],
                                    IndepColumn(m), IndepLag(m))
                ba == ReportedIndep(ordered_room_names[b], ordered_room_names[a],
                                    IndepColumn(m), IndepLag(m))
            IN  /\ Cell(m, a, b) = ab
                /\ (Stored(m, b, a) /\ ab # ba) => Cell(m, a, b) # Cell(m, b, a)

\* C9 witness: a rendered independence matrix with [1][2] different from [2][1].
C9_Witness ==
    /\ pc = "rendered"
    /\ \E m \in IndepSet :
          /\ mats[m][1][2] # mats[m][2][1]
          /\ mats[m][1][2] = ReportedIndep(ordered_room_names[1], ordered_room_names[2],
                                           IndepColumn(m), IndepLag(m))

\* either side of column c has zero variance over the joint frame of (a, b)
ZeroVariance(a, b, c) ==
    LET jf == JointOf(a, b)
        x == ColVals(jf, c)
        y == ColVals(jf, RightOf(c))
    IN  \/ \A k \in 1..Len(x) : x[k] = x[1]
        \/ \A k \in 1..Len(y) : y[k] = y[1]

\* the correlation accumulator named for a column
CorrNameOf(c) == CHOOSE m \in CorrSet : NamedColumn(m) = c

\* C10 (as claimed): when a channel has zero variance on either side of a pair's
\* joint frame, the pair's correlation cell of that channel holds NaN and the
\* comparison goes on.
C10_ZeroVarianceIsSoft ==
    \A c \in ColumnSet : \A a \in 1..N : \A b \in 1..N :
        (/\ Stored(CorrNameOf(c), a, b)
         /\ ZeroVariance(ordered_room_names[a], ordered_room_names[b], c))
        => /\ Cell(CorrNameOf(c), a, b) = NaN
           /\ ~(pc = "failed" /\ a = i /\ b = j)

\* some room fetched by the run under way has a series without any row
SomeSeriesEmpty == \E k \in 1..Len(selected_rooms_data) : selected_rooms_data[k].df = <<>>

\* C11 (as claimed): when the series of a selected room is empty, the comparison
\* is aborted before any pair is evaluated: no joint frame is ever built and no
\* accumulator ever holds a value.
C11_UpstreamFailureBeforeAnyPair ==
    SomeSeriesEmpty =>
        /\ joins = <<>>
        /\ \A m \in MatNames : this_iterations[m] = <<>> /\ mats[m] = <<>>

\* the catalog row of a room id
CatalogRow(room_id) ==
    all_rooms_table[CHOOSE k \in 1..Len(all_rooms_table) :
                        all_rooms_table[k].room_id = room_id]

\* the first date of a list that is present, Null when none is
RECURSIVE FirstPresent(_)
FirstPresent(dates) ==
    IF dates = <<>> THEN Null
    ELSE IF Head(dates) # Null THEN Head(dates)
    ELSE FirstPresent(Tail(dates))

\* start of the window by the stated precedence
PrecedenceStart(room) ==
    FirstPresent(<<room.scoring_start_date_override, room.scoring_start_date>>)

StoredSeries == {selected_rooms_data[n].df : n \in 1..Len(selected_rooms_data)}

\* channel number c of series df is the same number in every row
ConstantChannel(df, c) ==
    \A k \in 1..Len(df) : IsNum(df[k][RawChannels[c]]) /\ df[k][RawChannels[c]] = df[1][RawChannels[c]]

\* C13: in every RoomSeries and for each of the 4 channels, the delta of the
\* first row is null, the delta of a later row is null when the value of that
\* row or of the row before is null, and is value[k] - value[k-1] otherwise; a
\* constant channel has delta 0 in every row but the first.
C13_DeltaIsFirstDifference ==
    \A df \in StoredSeries : \A c \in 1..Len(RawChannels) :
        /\ \A k \in 1..Len(df) :
              LET cur == df[k][RawChannels[c]]
                  delta == df[k][DeltaChannels[c]]
              IN  IF k = 1 THEN delta = Null
                  ELSE LET prev == df[k - 1][RawChannels[c]]
                       IN  IF cur = Null \/ prev = Null THEN delta = Null
                           ELSE IF cur = NaN \/ prev = NaN THEN delta = NaN
                           ELSE delta = Num(cur.num - prev.num)
        /\ ConstantChannel(df, c) =>
              \A k \in 2..Len(df) : df[k][DeltaChannels[c]] = Num(0)

\* C13 witness: the stored series hold a constant channel of several rows, a
\* nonzero delta, a null delta under a null value and a null delta after a null
\* value.
C13_Witness ==
    /\ \E df \in StoredSeries : \E c \in 1..Len(RawChannels) :
          /\ Len(df) > 2
          /\ ConstantChannel(df, c)
          /\ df[1][DeltaChannels[c]] = Null
          /\ df[Len(df)][DeltaChannels[c]] = Num(0)
    /\ \E df \in StoredSeries : \E c \in 1..Len(RawChannels) : \E k \in 2..Len(df) :
          df[k][DeltaChannels[c]] \notin {Null, NaN, Num(0)}
    /\ \E df \in StoredSeries : \E c \in 1..Len(RawChannels) : \E k \in 2..(Len(df) - 1) :
          /\ df[k][RawChannels[c]] = Null
          /\ df[k][DeltaChannels[c]] = Null
          /\ IsNum(df[k + 1][RawChannels[c]])
          /\ df[k + 1][DeltaChannels[c]] = Null

\* the timestamps and the 4 channel values of a RoomSeries
Bucketed(df) ==
    [k \in 1..Len(df) |->
        [time |-> df[k].time, co2_ppm |-> df[k].co2_ppm, o2_ppm |-> df[k].o2_ppm,
         temp_c |-> df[k].temp_c, c2h4_ppm |-> df[k].c2h4_ppm]]

\* C14: the 30-minute bucketing applied to the bucketed rows of any RoomSeries
\* gives back the same timestamps and the same 4 channel values.
C14_ResamplingIdempotent ==
    \A df \in StoredSeries : group_by_dynamic(Bucketed(df)) = Bucketed(df)

\* C14 witness: the stored series re-bucketed include one with a null channel
\* value and one of full length with a bucket missing in the middle.
C14_Witness ==
    /\ \E df \in StoredSeries : \E k \in 1..Len(df) :
          df[k].c2h4_ppm = Null /\ group_by_dynamic(Bucketed(df))[k].c2h4_ppm = Null
    /\ \E df \in StoredSeries :
          /\ Len(df) >= SeriesLen
          /\ group_by_dynamic(Bucketed(df))[Len(df)].time = df[Len(df)].time
          /\ \E k \in 1..(Len(df) - 1) : df[k + 1].time - df[k].time > BucketTicks

\* the timestamps at which a RoomSeries has a row whose 8 values are all
\* non-null and finite
UsableTimes(df) ==
    {df[k].time : k \in {n \in 1..Len(df) : \A c \in ColumnSet : IsNum(df[n][c])}}

\* the pair the joint frame held by the run was built for
LastJoin == joins[Len(joins)]

\* C15: the joint frame built for a pair (base, comparison), self-pairs
\* included, has one row for each timestamp at which both rooms have a row with
\* 8 non-null finite values and no other row, and none of its 16 cells is null,
\* NaN or infinite.
C15_JoinedFrameContents ==
    joins # <<>> =>
        LET base == DictGet(selected_rooms_data, LastJoin.base)
            comparison == DictGet(selected_rooms_data, LastJoin.comparison)
        IN  /\ {joint_frame[k].time : k \in 1..Len(joint_frame)}
                  = UsableTimes(base) \cap UsableTimes(comparison)
            /\ \A k, l \in 1..Len(joint_frame) :
                  k # l => joint_frame[k].time # joint_frame[l].time
            /\ \A k \in 1..Len(joint_frame) :
                  \A c \in ColumnSet \cup RightColumnSet : IsNum(joint_frame[k][c])

\* C15 witness: a joint frame of two different rooms that is not empty and has
\* lost rows of the base room for both reasons: a base row with a null value,
\* and a usable base row whose timestamp the comparison room does not have.
C15_Witness ==
    /\ joins # <<>>
    /\ LastJoin.base # LastJoin.comparison
    /\ joint_frame # <<>>
    /\ LET base == DictGet(selected_rooms_data, LastJoin.base)
            comparison == DictGet(selected_rooms_data, LastJoin.comparison)
       IN  /\ \E k \in 1..Len(base) : base[k].time \notin UsableTimes(base)
           /\ \E t \in UsableTimes(base) :
                 /\ t \notin UsableTimes(comparison)
                 /\ \A k \in 1..Len(joint_frame) : joint_frame[k].time # t

\* C16 (as claimed): in every frame handed to the Granger test consecutive rows
\* are exactly one 30-minute bucket apart, so that lag 1 is 30 minutes and lag 2
\* is 60 minutes.  Stated for the frames the test accepted, whose results are
\* stored as the 30m and 60m independence values.
C16_GrangerFrameCadence ==
    (joins # <<>> /\ error = "none") =>
        \A k \in 1..(Len(joint_frame) - 1) :
            joint_frame[k + 1].time - joint_frame[k].time = BucketTicks

\* the rows get_room_data returned for a room of the run under way
FetchedRows(room_name) ==
    LET room == RoomRow(room_name, selected_customer)
    IN  get_room_data(room.room_id, ScoreStart(room), ScoreEnd(room))

\* C17 (as claimed): every RoomSeries has strictly increasing timestamps and one
\* row for each 30-minute bucket from its first to its last: a bucket without
\* any sample is a row of nulls, never a missing row, and every value is the
\* rounded mean of the bucket's samples (null when it has none).
C17_OneRowPerBucket ==
    \A n \in 1..Len(selected_rooms_data) :
        LET df == selected_rooms_data[n].df
            rows == FetchedRows(selected_rooms_data[n].room_name)
        IN  /\ \A k \in 1..(Len(df) - 1) : df[k + 1].time = df[k].time + BucketTicks
            /\ \A k \in 1..Len(df) : \A c \in Range(RawChannels) :
                  LET In(r) == r.time \in df[k].time..(df[k].time + BucketTicks - 1)
                  IN  df[k][c] = MeanRound(SelectSeq(rows, In), c)

\* row and column of the k-th pair of a sweep in row-major order
PairRow(k) == ((k - 1) \div N) + 1
PairCol(k) == ((k - 1) % N) + 1

\* the value of accumulator m computed from a given joint frame of pair (a, b)
FromFrame(frame, m, a, b) ==
    IF m \in CorrSet
    THEN corrcoef_round(ColVals(frame, CorrColumn(m)),
                        ColVals(frame, RightOf(CorrColumn(m))))
    ELSE IF a = b THEN Num(0)
    ELSE mean_round(grangercausalitytests(pvalue_table,
                        ColVals(frame, IndepColumn(m)),
                        ColVals(frame, RightOf(IndepColumn(m))))[IndepLag(m)])

\* C18: in one Compare a joint frame is built once for each ordered pair, in
\* sweep order, N * N frames once the sweep is over, and each of the 24 values
\* stored for the pair evaluated last is computed from the one frame built for
\* it.
C18_JoinBuiltOncePerPair ==
    /\ \A k \in 1..Len(joins) :
          joins[k] = [base |-> ordered_room_names[PairRow(k)],
                      comparison |-> ordered_room_names[PairCol(k)]]
    /\ \A k, l \in 1..Len(joins) : k # l => joins[k] # joins[l]
    /\ pc \in {"sweep_done", "rendered"} => Len(joins) = N * N
    /\ joins # <<>> =>
          \A m \in MatNames :
              Stored(m, PairRow(Len(joins)), PairCol(Len(joins))) =>
                  Cell(m, PairRow(Len(joins)), PairCol(Len(joins)))
                      = FromFrame(joint_frame, m, PairRow(Len(joins)), PairCol(Len(joins)))

\* C18 witness: a finished sweep of 3 rooms with 9 joint frames built, the last
\* one for the pair (3, 3).
C18_Witness ==
    /\ pc = "sweep_done"
    /\ N = 3
    /\ Len(joins) = 9
    /\ joins[9] = [base |-> ordered_room_names[3], comparison |-> ordered_room_names[3]]
    /\ joins[2].base # joins[2].comparison

\* the four p-values the Granger test reports at one lag for column c of the
\* ordered pair of rooms (a, b)
SubTestPs(a, b, c, lag) ==
    LET jf == JointOf(a, b)
    IN  grangercausalitytests(pvalue_table, ColVals(jf, c), ColVals(jf, RightOf(c)))[lag]

\* C19: for a # b, cell [a][b] of the k-th 30m matrix is the mean of the four
\* lag-1 p-values of the k-th series (4 raw channels, then their 4 deltas) and
\* that of the k-th 60m matrix the mean of the four lag-2 p-values, rounded to 3
\* decimals; every such cell lies in [0, 1].
C19_MeanOfSubTests ==
    \A k \in 1..Len(Columns) : \A lag \in Lags : \A a \in 1..N : \A b \in 1..N :
        LET m == IF lag = 1 THEN Indep30Names[k] ELSE Indep1hrNames[k]
            ps == SubTestPs(ordered_room_names[a], ordered_room_names[b], Columns[k], lag)
        IN  (a # b /\ Stored(m, a, b)) =>
                /\ Len(ps) = Len(SubTests)
                /\ Cell(m, a, b) = Num(RoundDiv(ps[1] + ps[2] + ps[3] + ps[4], 4))
                /\ Cell(m, a, b).num \in 0..1000

\* C19 witness: a rendered comparison with a cell whose four p-values are not
\* all the same and whose 30m and 60m values differ.
C19_Witness ==
    /\ pc = "rendered"
    /\ \E k \in 1..Len(Columns) :
          LET ps == SubTestPs(ordered_room_names[1], ordered_room_names[2], Columns[k], 1)
          IN  /\ \E t \in 2..Len(ps) : ps[t] # ps[1]
              /\ mats[Indep30Names[k]][1][2] # mats[Indep1hrNames[k]][1][2]
              /\ mats[Indep30Names[k]][1][2] \notin {Num(0), Num(1000)}

\* the script run goes on: the step is not the start of another run
SameRun == pc' \in {"fetched", "row", "pair", "row_end", "sweep_done", "rendered", "failed"}

\* the cells accumulator m holds form a beginning of the row-major order
RowMajorPrefix(m) ==
    \A a \in 1..N : \A b \in 1..N :
        Stored(m, a, b) =>
            \A c \in 1..N : \A d \in 1..N :
                (c < a \/ (c = a /\ d < b)) => Stored(m, c, d)

\* C20: during a Compare the cells of each of the 24 matrices are written in
\* row-major order of (base room, comparison room), and a step of the run never
\* changes or removes a cell written before: each cell is written once.
C20_CellsWrittenOnce ==
    /\ [](\A m \in MatNames : RowMajorPrefix(m))
    /\ [][SameRun =>
            \A m \in MatNames : \A a \in 1..N : \A b \in 1..N :
                Stored(m, a, b) =>
                    /\ Stored(m, a, b)'
                    /\ Cell(m, a, b)' = Cell(m, a, b)]_vars

\* C20 witness: the sweep of 3 rooms is in its third row: two rows are in the
\* matrices and the row list holds the first cells of the third.
C20_Witness ==
    /\ pc = "pair"
    /\ N = 3
    /\ i = 3
    /\ j = 3
    /\ \A m \in MatNames : Len(mats[m]) = 2 /\ Len(this_iterations[m]) = 2

\* the run stands between the end of the fetch phase and the rendering
InSweep == pc \in {"row", "pair", "row_end", "sweep_done"}

\* C21: no step of the pair sweep, from the first row to the rendering, changes
\* the RoomSeries stored for any room (timestamps, 4 raw and 4 delta columns) or
\* the room-order list; nor does the step that takes the room order.
C21_SweepLeavesInputsUnchanged ==
    [][/\ InSweep =>
            /\ selected_rooms_data' = selected_rooms_data
            /\ ordered_room_names' = ordered_room_names
       /\ pc = "fetched" => selected_rooms_data' = selected_rooms_data]_vars

\* C21 witness: a row of the sweep is complete, the filter took rows away from
\* the base room's frame and a joint frame was built, while the stored series
\* still has all its rows.
C21_Witness ==
    /\ pc = "row_end"
    /\ i = 2
    /\ joint_frame # <<>>
    /\ Len(iteration_base_frame) < Len(DictGet(selected_rooms_data, ordered_room_names[i]))
    /\ DictGet(selected_rooms_data, ordered_room_names[i])[1].co2_ppm_delta = Null

\* C22: whenever a pair's evaluation has completed, each of the 24 row lists
\* holds one entry for each pair of the row evaluated so far; at every point
\* each row appended to any of the 24 matrices has N entries, and the 24
\* matrices have the same number of rows.
C22_AccumulatorsInLockstep ==
    /\ pc \in {"pair", "row_end"} =>
          \A m \in MatNames : Len(this_iterations[m]) = j - 1
    /\ \A m \in MatNames :
          /\ Len(mats[m]) = Len(mats["co2_correlations"])
          /\ \A a \in 1..Len(mats[m]) : Len(mats[m][a]) = N

\* C22 witness: in the second row of a sweep of 3 rooms two pairs are done:
\* every row list has 2 entries and every matrix one row of 3.
C22_Witness ==
    /\ pc = "pair"
    /\ N = 3
    /\ i = 2
    /\ j = 3
    /\ \A m \in MatNames :
          /\ Len(this_iterations[m]) = 2
          /\ Len(mats[m]) = 1
          /\ Len(mats[m][1]) = 3

\* the step does work of run(): it loads the catalog, queries the sensor
\* database, builds a joint frame or moves within run()
StepOfRun ==
    \/ all_rooms' # all_rooms
    \/ ts_queries' # ts_queries
    \/ joins' # joins
    \/ pc' \notin {"gate", "rerun"}

\* C23: "authorized" starts False, turns True only in a script run whose text
\* input holds the configured answer, is never reset to False, and every step
\* of run() (catalog load, sensor query, comparison) belongs to a script run
\* that started with "authorized" True.
C23_RunOnlyWhenAuthorized ==
    /\ ~authorized
    /\ [](pc \notin {"gate", "rerun"} => authorized)
    /\ []((all_rooms # <<>> \/ ts_queries # <<>> \/ joins # <<>>) => authorized)
    /\ [][(~authorized /\ authorized') => answer' = SECURITY_QUESTION_ANSWER]_vars
    /\ [][authorized => authorized']_vars
    /\ [][StepOfRun => authorized]_vars

\* C23 witness: the visitor gave the configured answer and a comparison has
\* queried the sensor database and rendered its matrices.
C23_Witness ==
    /\ authorized
    /\ answer = SECURITY_QUESTION_ANSWER
    /\ all_rooms # <<>>
    /\ ts_queries # <<>>
    /\ pc = "rendered"
    /\ Len(charts) = Len(ChartTable)

\* C24: a Compare with fewer than 2 selected rooms only warns: it sends no
\* sensor query, stores no series, evaluates no pair and draws no matrix; a run
\* that fetches or sweeps has at least 2 rooms, and the sweep's room names are
\* pairwise distinct.
C24_FewerThanTwoRoomsOnlyWarns ==
    /\ pc = "warned" =>
          /\ Len(selected_rooms) < 2
          /\ ts_queries = <<>>
          /\ selected_rooms_data = <<>>
          /\ joins = <<>>
          /\ charts = <<>>
          /\ \A m \in MatNames : mats[m] = <<>> /\ this_iterations[m] = <<>>
    /\ (ts_queries # <<>> \/ selected_rooms_data # <<>> \/ joins # <<>> \/ charts # <<>>)
          => Len(selected_rooms) >= 2
    /\ pc \in {"row", "pair", "row_end", "sweep_done", "rendered", "failed"} =>
          /\ N >= 2
          /\ \A a, b \in 1..N : a # b => ordered_room_names[a] # ordered_room_names[b]

\* C24 witness: Compare was pressed with exactly one room selected and the run
\* ended with the warning.
C24_Witness ==
    /\ pc = "warned"
    /\ Len(selected_rooms) = 1
    /\ authorized
    /\ ts_queries = <<>>

\* C25 (as claimed): every connection opened by fetch_customer_rooms or
\* get_room_data has been closed when the function is back, so no open
\* connection is left behind however many rooms are fetched.
C25_ConnectionsClosedOnReturn ==
    \A k \in 1..Len(connections) : connections[k].closed

====
